---- MODULE Spec2Model ----
(***************************************************************************)
(* A model of TreeHashCache (eth2/utils/cached_tree_hash/src/              *)
(* tree_hash_cache.rs): the chunk buffer, the dirty bitmap, the schema     *)
(* list and the two cursors, with one action per public operation.         *)
(*                                                                         *)
(* `bytes` is modelled byte by byte, so that the length invariants, the    *)
(* little-endian length chunk and the byte ranges of the code are what      *)
(* they are in the code.  The overlay, the resize routines, merkleize and  *)
(* the hash primitive are not part of tree_hash_cache.rs; they are         *)
(* modelled from the specification's description of them.                  *)
(***************************************************************************)
EXTENDS Integers, Sequences, FiniteSets, TLC

(***************************************************************************)
(* Program constants.                                                      *)
(***************************************************************************)
HASHSIZE == 32

BYTES_PER_CHUNK == 32

\* Stand-in for usize::MAX, the value of `0 - 1` in a build without
\* overflow checks (2^64 - 1 does not fit the model checker's integers).
USIZE_MAX == -1

(***************************************************************************)
(* Sequence and byte helpers.                                              *)
(***************************************************************************)
RECURSIVE Pow2(_)
Pow2(n) == IF n <= 0 THEN 1 ELSE 2 * Pow2(n - 1)

Repeat(x, n) == [i \in 1..n |-> x]

Zeros(n) == Repeat(0, n)

Reverse(s) == [i \in 1..Len(s) |-> s[Len(s) + 1 - i]]

RECURSIVE Flatten(_)
Flatten(ss) == IF ss = <<>> THEN <<>> ELSE Head(ss) \o Flatten(Tail(ss))

\* slice.get(lo..hi): present iff lo <= hi <= len.
InRange(v, lo, hi) == lo >= 0 /\ lo <= hi /\ hi <= Len(v)

\* The elements lo..hi (0-based, half-open) of v.
Slice(v, lo, hi) == SubSeq(v, lo + 1, hi)

\* Vec::splice(lo..hi, r) where InRange(v, lo, hi).
VecSplice(v, lo, hi, r) == SubSeq(v, 1, lo) \o r \o SubSeq(v, hi + 1, Len(v))

\* v[i] = x (0-based) where i < len.
VecSet(v, i, x) == [v EXCEPT ![i + 1] = x]

\* The chunk at chunk index i of byte sequence b.
ChunkAt(b, i) == Slice(b, i * HASHSIZE, (i + 1) * HASHSIZE)

NumChunks(b) == Len(b) \div HASHSIZE

\* Byte i (1 = least significant) of n.
RECURSIVE ByteOf(_, _)
ByteOf(n, i) == IF i = 1 THEN n % 256 ELSE ByteOf(n \div 256, i - 1)

\* int_to_bytes32(n as u64): 32 bytes, little-endian, zero-padded.
int_to_bytes32(n) == [i \in 1..32 |-> IF i <= 8 THEN ByteOf(n, i) ELSE 0]

(***************************************************************************)
(* The hash primitive: a fixed function from byte sequences to HASHSIZE    *)
(* bytes.  The cache treats it as opaque; the model uses a small mixing    *)
(* function that depends on every byte and on the order of the bytes.      *)
(***************************************************************************)
RECURSIVE Mix(_, _, _)
Mix(b, lo, hi) ==
    IF lo > hi THEN 0
    ELSE IF lo = hi THEN ((b[lo] + 1) * (2 * lo + 1)) % 65521
    ELSE LET mid == (lo + hi) \div 2
         IN  (Mix(b, lo, mid) + 31 * Mix(b, mid + 1, hi)) % 65521

hash(b) ==
    LET h == Mix(b, 1, Len(b))
    IN  [i \in 1..HASHSIZE |-> ((h + 1) * (2 * i + 1) + (h \div Pow2(i % 9))) % 256]

(***************************************************************************)
(* merkleize and pad_for_leaf_count (crate::merkleize).                    *)
(***************************************************************************)
RECURSIVE NextPowerOfTwoFrom(_, _)
NextPowerOfTwoFrom(n, p) == IF p >= n THEN p ELSE NextPowerOfTwoFrom(n, 2 * p)

\* usize::next_power_of_two: the smallest power of two >= n (1 for n = 0).
next_power_of_two(n) == NextPowerOfTwoFrom(n, 1)

\* Node i of the tree whose leaves (a power-of-two number of chunks) are
\* `leaves`, in level order: node i is hash(node[2i+1] || node[2i+2]).
RECURSIVE MerkleNode(_, _)
MerkleNode(leaves, i) ==
    LET nl == NumChunks(leaves)
    IN  IF i >= nl - 1
        THEN ChunkAt(leaves, i - (nl - 1))
        ELSE hash(MerkleNode(leaves, 2 * i + 1) \o MerkleNode(leaves, 2 * i + 2))

\* pad_for_leaf_count(n, bytes): zero chunks appended until n leaves have
\* become next_power_of_two(n) leaves.
pad_for_leaf_count(n, b) == b \o Zeros((next_power_of_two(n) - n) * HASHSIZE)

\* Internal nodes first (level order, root at offset 0), then the leaves.
\* Leaves that are not a power-of-two number of chunks (from_subtrees hands
\* over one root per subtree) are first padded with zero chunks.
merkleize(leaves) ==
    IF leaves = <<>> THEN <<>>
    ELSE LET padded == pad_for_leaf_count(NumChunks(leaves), leaves)
         IN  Flatten([i \in 1..(NumChunks(padded) - 1) |-> MerkleNode(padded, i - 1)])
             \o padded

(***************************************************************************)
(* BTreeSchema / BTreeOverlay.  A schema is a depth, a number of logical   *)
(* leaves and the length-mixin flag; an overlay is a schema resolved at a  *)
(* chunk index.                                                            *)
(***************************************************************************)
Schema(depth, leaves, list) == [depth |-> depth, leaves |-> leaves, list |-> list]

into_overlay(schema, chunk_index) ==
    [chunk_index |-> chunk_index, depth |-> schema.depth,
     leaves |-> schema.leaves, list |-> schema.list]

\* BTreeOverlay -> BTreeSchema (`overlay.into()`).
into_schema(overlay) ==
    [depth |-> overlay.depth, leaves |-> overlay.leaves, list |-> overlay.list]

num_leaf_nodes(overlay) == next_power_of_two(overlay.leaves)

num_internal_nodes(overlay) ==
    IF overlay.leaves = 0 THEN 0 ELSE next_power_of_two(overlay.leaves) - 1

RECURSIVE CeilLog2From(_, _)
CeilLog2From(n, k) == IF Pow2(k) >= n THEN k ELSE CeilLog2From(n, k + 1)

\* ceil(log2(max(leaves, 1))) + 1: the number of node levels, leaves included.
height(overlay) ==
    CeilLog2From(IF overlay.leaves > 1 THEN overlay.leaves ELSE 1, 0) + 1

\* [start, end) of the overlay's internal chunks.
internal_chunk_range(overlay) ==
    <<overlay.chunk_index, overlay.chunk_index + num_internal_nodes(overlay)>>

leaf_chunk_range(overlay) ==
    <<overlay.chunk_index + num_internal_nodes(overlay),
      overlay.chunk_index + num_internal_nodes(overlay) + num_leaf_nodes(overlay)>>

first_leaf_node(overlay) == overlay.chunk_index + num_internal_nodes(overlay)

\* The triples <<parent, <<left, right>>>>, deepest parent first: for each
\* internal node p from the last one down to the root, (p, (2p+1, 2p+2)) as
\* local offsets added to chunk_index.
internal_parents_and_children(overlay) ==
    LET n == num_internal_nodes(overlay)
        o == overlay.chunk_index
    IN  [k \in 1..n |-> LET p == n - k
                        IN  <<o + p, <<o + 2 * p + 1, o + 2 * p + 2>>>>]

(***************************************************************************)
(* resize: an internal region of h levels holds 2^h - 1 nodes in level     *)
(* order.  A node's logical position is its level counted from the         *)
(* deepest internal level and its index from the left within that level,   *)
(* so the old region is the left-most subtree of a grown region.           *)
(***************************************************************************)
nodes_in_tree_of_height(h) == Pow2(h) - 1

RECURSIVE DepthOfNode(_, _)
DepthOfNode(p, i) == IF p < Pow2(i + 1) - 1 THEN i ELSE DepthOfNode(p, i + 1)

\* The node of the old region (level-order index) that sits at the logical
\* position of node p of the new region, or -1 when there is none.
\* d = new levels - old levels (negative when shrinking).
AlignedOld(p, d) ==
    LET i == DepthOfNode(p, 0)
        j == p - (Pow2(i) - 1)
    IN  IF i - d >= 0 /\ j < Pow2(i - d) THEN Pow2(i - d) - 1 + j ELSE -1

NoResize == [some |-> FALSE, bytes |-> <<>>, flags |-> <<>>]

Resized(old_bytes, old_flags, from_height, to_height) ==
    LET d == to_height - from_height
        n == nodes_in_tree_of_height(to_height)
    IN  [some  |-> TRUE,
         bytes |-> Flatten([k \in 1..n |->
                      LET q == AlignedOld(k - 1, d)
                      IN  IF q >= 0 THEN ChunkAt(old_bytes, q) ELSE Zeros(HASHSIZE)]),
         flags |-> [k \in 1..n |->
                      LET q == AlignedOld(k - 1, d)
                      IN  IF q >= 0 THEN old_flags[q + 1] ELSE TRUE]]

ResizeInputsOk(old_bytes, old_flags, from_height) ==
    /\ Len(old_flags) = nodes_in_tree_of_height(from_height)
    /\ Len(old_bytes) = Len(old_flags) * HASHSIZE

grow_merkle_tree(old_bytes, old_flags, from_height, to_height) ==
    IF to_height > from_height /\ ResizeInputsOk(old_bytes, old_flags, from_height)
    THEN Resized(old_bytes, old_flags, from_height, to_height)
    ELSE NoResize

shrink_merkle_tree(old_bytes, old_flags, from_height, to_height) ==
    IF to_height < from_height /\ to_height >= 0
       /\ ResizeInputsOk(old_bytes, old_flags, from_height)
    THEN Resized(old_bytes, old_flags, from_height, to_height)
    ELSE NoResize

(***************************************************************************)
(* TreeHashCache.  A cache value is a record of the five fields; every     *)
(* operation is an operator from a cache (and its arguments) to an         *)
(* outcome: the cache as the operation leaves it, the error ("Ok" for      *)
(* success, "Panic" for an abort), the error's payload and the value       *)
(* returned.                                                               *)
(***************************************************************************)
TreeHashCache(b, m, s, ci, si) ==
    [bytes |-> b, chunk_modified |-> m, schemas |-> s,
     chunk_index |-> ci, schema_index |-> si]

default == TreeHashCache(<<>>, <<>>, <<>>, 0, 0)

Ok(c) == [c |-> c, err |-> "Ok", val |-> 0, ret |-> <<>>]

OkRet(c, r) == [c |-> c, err |-> "Ok", val |-> 0, ret |-> r]

Err(c, e, v) == [c |-> c, err |-> e, val |-> v, ret |-> <<>>]

Panic(c) == Err(c, "Panic", 0)

\* The `?` operator: the outcome r of a call made on the way, as the
\* caller's own failure.
Failed(r) == r.err # "Ok"

\* Option<BTreeSchema>.
None == [some |-> FALSE, schema |-> Schema(0, 0, FALSE)]

Some(schema) == [some |-> TRUE, schema |-> schema]

\* Mutant: the chunk-alignment check is left out.
from_bytes_unchecked(b, initial_modified_state, schema) ==
    Ok(TreeHashCache(b,
                     Repeat(initial_modified_state, Len(b) \div BYTES_PER_CHUNK),
                     IF schema.some THEN <<schema.schema>> ELSE <<>>,
                     0, 0))

from_bytes(b, initial_modified_state, schema) ==
    IF Len(b) % BYTES_PER_CHUNK > 0
    THEN Err(default, "BytesAreNotEvenChunks", Len(b))
    ELSE Ok(TreeHashCache(b,
                          Repeat(initial_modified_state, Len(b) \div BYTES_PER_CHUNK),
                          IF schema.some THEN <<schema.schema>> ELSE <<>>,
                          0, 0))

\* Mutant: emptiness read off the schema list.
is_empty_by_schemas(c) == Len(c.schemas) = 0

is_empty(c) == Len(c.chunk_modified) = 0

get_overlay(c, schema_index, chunk_index) ==
    IF schema_index >= 0 /\ schema_index < Len(c.schemas)
    THEN OkRet(c, into_overlay(c.schemas[schema_index + 1], chunk_index))
    ELSE Err(c, "NoSchemaForIndex", schema_index)

\* Mutant: the flags are cleared, the cursors are not reset.
reset_keeps_cursors(c) ==
    [c EXCEPT !.chunk_modified = [i \in 1..Len(c.chunk_modified) |-> FALSE]]

\* Mutant: the reset also forgets the schema list.
reset_forgets_schemas(c) ==
    [c EXCEPT !.chunk_index = 0,
              !.schema_index = 0,
              !.schemas = <<>>,
              !.chunk_modified = [i \in 1..Len(c.chunk_modified) |-> FALSE]]

reset_modifications(c) ==
    [c EXCEPT !.chunk_index = 0,
              !.schema_index = 0,
              !.chunk_modified = [i \in 1..Len(c.chunk_modified) |-> FALSE]]

node_range_to_byte_range(node_range) ==
    <<node_range[1] * HASHSIZE, node_range[2] * HASHSIZE>>

\* Option<(&[u8], &[bool])>.
slices(c, chunk_range) ==
    LET br == node_range_to_byte_range(chunk_range)
    IN  IF /\ InRange(c.bytes, br[1], br[2])
           /\ InRange(c.chunk_modified, chunk_range[1], chunk_range[2])
        THEN [some  |-> TRUE,
              bytes |-> Slice(c.bytes, br[1], br[2]),
              flags |-> Slice(c.chunk_modified, chunk_range[1], chunk_range[2])]
        ELSE NoResize

get_chunk(c, chunk) ==
    LET start == chunk * BYTES_PER_CHUNK
        end   == start + BYTES_PER_CHUNK
    IN  IF InRange(c.bytes, start, end)
        THEN OkRet(c, Slice(c.bytes, start, end))
        ELSE Err(c, "NoModifiedFieldForChunk", chunk)

chunk_equals(c, chunk, other) ==
    LET g == get_chunk(c, chunk)
    IN  IF Failed(g) THEN g ELSE OkRet(c, g.ret = other)

changed(c, chunk) ==
    IF chunk >= 0 /\ chunk < Len(c.chunk_modified)
    THEN OkRet(c, c.chunk_modified[chunk + 1])
    ELSE Err(c, "NoModifiedFieldForChunk", chunk)

either_modified(c, children) ==
    LET l == changed(c, children[1])
        r == changed(c, children[2])
    IN  IF Failed(l) THEN l
        ELSE IF Failed(r) THEN r
        ELSE OkRet(c, l.ret \/ r.ret)

hash_children(c, children) ==
    LET l == get_chunk(c, children[1])
        r == get_chunk(c, children[2])
    IN  IF Failed(l) THEN l
        ELSE IF Failed(r) THEN r
        ELSE OkRet(c, hash(l.ret \o r.ret))

\* Mutant: the bytes are written, the flag is not set.
WriteChunkNoFlag(c, chunk, to) ==
    LET start == chunk * BYTES_PER_CHUNK
        end   == start + BYTES_PER_CHUNK
        wrote == [c EXCEPT !.bytes = VecSplice(c.bytes, start, end, to)]
    IN  IF Len(to) # BYTES_PER_CHUNK THEN Panic(c)
        ELSE IF chunk >= Len(c.chunk_modified) THEN Panic(wrote)
        ELSE Ok(wrote)

\* bytes[start..end].copy_from_slice(to); chunk_modified[chunk] = true.
\* copy_from_slice aborts on a length mismatch, the index on a missing flag.
WriteChunk(c, chunk, to) ==
    LET start == chunk * BYTES_PER_CHUNK
        end   == start + BYTES_PER_CHUNK
        wrote == [c EXCEPT !.bytes = VecSplice(c.bytes, start, end, to)]
    IN  IF Len(to) # BYTES_PER_CHUNK THEN Panic(c)
        ELSE IF chunk >= Len(c.chunk_modified) THEN Panic(wrote)
        ELSE Ok([wrote EXCEPT !.chunk_modified = VecSet(c.chunk_modified, chunk, TRUE)])

modify_chunk(c, chunk, to) ==
    LET start == chunk * BYTES_PER_CHUNK
        end   == start + BYTES_PER_CHUNK
    IN  IF ~InRange(c.bytes, start, end)
        THEN Err(c, "NoBytesForChunk", chunk)
        ELSE WriteChunk(c, chunk, to)

\* Mutant: the chunk is written and marked whether or not it differs.
maybe_update_chunk_always(c, chunk, to) ==
    LET e == chunk_equals(c, chunk, to)
    IN  IF Failed(e) THEN e ELSE WriteChunk(c, chunk, to)

maybe_update_chunk(c, chunk, to) ==
    LET e == chunk_equals(c, chunk, to)
    IN  IF Failed(e) THEN e
        ELSE IF ~e.ret THEN WriteChunk(c, chunk, to)
        ELSE Ok(c)

\* Mutant: only the bytes are spliced.
splice_bytes_only(c, chunk_range, new_bytes, bools) ==
    LET br == node_range_to_byte_range(chunk_range)
    IN  IF ~InRange(c.bytes, br[1], br[2]) THEN Panic(c)
        ELSE Ok([c EXCEPT !.bytes = VecSplice(c.bytes, br[1], br[2], new_bytes)])

\* Vec::splice on chunk_modified, then on bytes; each aborts on a range that
\* is reversed or ends past the vector.
splice(c, chunk_range, new_bytes, bools) ==
    LET br == node_range_to_byte_range(chunk_range)
        c1 == [c EXCEPT !.chunk_modified =
                  VecSplice(c.chunk_modified, chunk_range[1], chunk_range[2], bools)]
    IN  IF ~InRange(c.chunk_modified, chunk_range[1], chunk_range[2]) THEN Panic(c)
        ELSE IF ~InRange(c.bytes, br[1], br[2]) THEN Panic(c1)
        ELSE Ok([c1 EXCEPT !.bytes = VecSplice(c.bytes, br[1], br[2], new_bytes)])

\* Mutant: a changed internal region is always allocated afresh.
ResizeInternalFresh(old, new_overlay, old_overlay) ==
    LET nodes == num_internal_nodes(new_overlay)
    IN  [some |-> TRUE, bytes |-> Zeros(nodes * HASHSIZE),
         flags |-> Repeat(TRUE, nodes), err |-> "Ok"]

\* Mutant: nodes created for a tree that had none are left clean.
ResizeInternalClean(old, new_overlay, old_overlay) ==
    IF num_internal_nodes(new_overlay) = 0
    THEN [some |-> TRUE, bytes |-> <<>>, flags |-> <<>>, err |-> "Ok"]
    ELSE IF num_internal_nodes(old_overlay) = 0
    THEN LET nodes == nodes_in_tree_of_height(height(new_overlay) - 1)
         IN  [some |-> TRUE, bytes |-> Zeros(nodes * HASHSIZE),
              flags |-> Repeat(FALSE, nodes), err |-> "Ok"]
    ELSE IF num_internal_nodes(new_overlay) > num_internal_nodes(old_overlay)
    THEN LET g == grow_merkle_tree(old.bytes, old.flags,
                                   height(old_overlay) - 1, height(new_overlay) - 1)
         IN  [some |-> g.some, bytes |-> g.bytes, flags |-> g.flags,
              err |-> "UnableToGrowMerkleTree"]
    ELSE LET g == shrink_merkle_tree(old.bytes, old.flags,
                                     height(old_overlay) - 1, height(new_overlay) - 1)
         IN  [some |-> g.some, bytes |-> g.bytes, flags |-> g.flags,
              err |-> "UnableToShrinkMerkleTree"]

\* The new internal region for replace_overlay, given the old one.
ResizeInternal(old, new_overlay, old_overlay) ==
    IF num_internal_nodes(new_overlay) = 0
    THEN [some |-> TRUE, bytes |-> <<>>, flags |-> <<>>, err |-> "Ok"]
    ELSE IF num_internal_nodes(old_overlay) = 0
    THEN LET nodes == nodes_in_tree_of_height(height(new_overlay) - 1)
         IN  [some |-> TRUE, bytes |-> Zeros(nodes * HASHSIZE),
              flags |-> Repeat(TRUE, nodes), err |-> "Ok"]
    ELSE IF num_internal_nodes(new_overlay) > num_internal_nodes(old_overlay)
    THEN LET g == grow_merkle_tree(old.bytes, old.flags,
                                   height(old_overlay) - 1, height(new_overlay) - 1)
         IN  [some |-> g.some, bytes |-> g.bytes, flags |-> g.flags,
              err |-> "UnableToGrowMerkleTree"]
    ELSE LET g == shrink_merkle_tree(old.bytes, old.flags,
                                     height(old_overlay) - 1, height(new_overlay) - 1)
         IN  [some |-> g.some, bytes |-> g.bytes, flags |-> g.flags,
              err |-> "UnableToShrinkMerkleTree"]

\* Mutant: the previous overlay is returned resolved at chunk 0.
replace_overlay_at_zero(c, schema_index, chunk_index, new_overlay) ==
    LET o   == get_overlay(c, schema_index, chunk_index)
        old_overlay == o.ret
        old == slices(c, internal_chunk_range(old_overlay))
        new == ResizeInternal(old, new_overlay, old_overlay)
        sp  == splice(c, internal_chunk_range(old_overlay), new.bytes, new.flags)
        c1  == IF num_internal_nodes(new_overlay) # num_internal_nodes(old_overlay)
               THEN sp.c ELSE c
    IN  IF Failed(o) THEN o
        ELSE IF num_internal_nodes(new_overlay) # num_internal_nodes(old_overlay)
                /\ ~old.some
        THEN Err(c, "UnableToObtainSlices", 0)
        ELSE IF num_internal_nodes(new_overlay) # num_internal_nodes(old_overlay)
                /\ ~new.some
        THEN Err(c, new.err, 0)
        ELSE IF num_internal_nodes(new_overlay) # num_internal_nodes(old_overlay)
                /\ Failed(sp)
        THEN sp
        ELSE OkRet([c1 EXCEPT !.schemas = VecSet(c1.schemas, schema_index,
                                                 into_schema(new_overlay))],
                   into_overlay(c.schemas[schema_index + 1], 0))

\* Mutant: the schema entry is replaced before the fallible steps.
replace_overlay_schema_first(c, schema_index, chunk_index, new_overlay) ==
    LET o   == get_overlay(c, schema_index, chunk_index)
        old_overlay == o.ret
        old == slices(c, internal_chunk_range(old_overlay))
        new == ResizeInternal(old, new_overlay, old_overlay)
        c0  == [c EXCEPT !.schemas = VecSet(c.schemas, schema_index,
                                            into_schema(new_overlay))]
        sp  == splice(c0, internal_chunk_range(old_overlay), new.bytes, new.flags)
        c1  == IF num_internal_nodes(new_overlay) # num_internal_nodes(old_overlay)
               THEN sp.c ELSE c0
    IN  IF Failed(o) THEN o
        ELSE IF num_internal_nodes(new_overlay) # num_internal_nodes(old_overlay)
                /\ ~old.some
        THEN Err(c0, "UnableToObtainSlices", 0)
        ELSE IF num_internal_nodes(new_overlay) # num_internal_nodes(old_overlay)
                /\ ~new.some
        THEN Err(c0, new.err, 0)
        ELSE IF num_internal_nodes(new_overlay) # num_internal_nodes(old_overlay)
                /\ Failed(sp)
        THEN sp
        ELSE OkRet(c1, into_overlay(c.schemas[schema_index + 1], chunk_index))

replace_overlay(c, schema_index, chunk_index, new_overlay) ==
    LET o   == get_overlay(c, schema_index, chunk_index)
        old_overlay == o.ret
        old == slices(c, internal_chunk_range(old_overlay))
        new == ResizeInternal(old, new_overlay, old_overlay)
        sp  == splice(c, internal_chunk_range(old_overlay), new.bytes, new.flags)
        c1  == IF num_internal_nodes(new_overlay) # num_internal_nodes(old_overlay)
               THEN sp.c ELSE c
    IN  IF Failed(o) THEN o
        ELSE IF num_internal_nodes(new_overlay) # num_internal_nodes(old_overlay)
                /\ ~old.some
        THEN Err(c, "UnableToObtainSlices", 0)
        ELSE IF num_internal_nodes(new_overlay) # num_internal_nodes(old_overlay)
                /\ ~new.some
        THEN Err(c, new.err, 0)
        ELSE IF num_internal_nodes(new_overlay) # num_internal_nodes(old_overlay)
                /\ Failed(sp)
        THEN sp
        ELSE OkRet([c1 EXCEPT !.schemas = VecSet(c1.schemas, schema_index,
                                                 into_schema(new_overlay))],
                   into_overlay(c.schemas[schema_index + 1], chunk_index))

\* Mutant: the run stops only at a schema of strictly smaller depth.
RECURSIVE ProceedingEndStrict(_, _, _)
ProceedingEndStrict(schemas, i, depth) ==
    IF i >= Len(schemas) THEN Len(schemas)
    ELSE IF schemas[i + 1].depth < depth THEN i
    ELSE ProceedingEndStrict(schemas, i + 1, depth)

\* The first index >= schema_index of a schema with depth <= depth, or the
\* length of the list (Iterator::skip, position, unwrap_or_else).
RECURSIVE ProceedingEnd(_, _, _)
ProceedingEnd(schemas, i, depth) ==
    IF i >= Len(schemas) THEN Len(schemas)
    ELSE IF schemas[i + 1].depth <= depth THEN i
    ELSE ProceedingEnd(schemas, i + 1, depth)

remove_proceeding_child_schemas(c, schema_index, depth) ==
    LET end == ProceedingEnd(c.schemas, schema_index, depth)
    IN  IF ~InRange(c.schemas, schema_index, end) THEN Panic(c)
        ELSE Ok([c EXCEPT !.schemas = VecSplice(c.schemas, schema_index, end, <<>>)])

\* The loop of update_internal_nodes over the triples still to visit.
RECURSIVE UpdateNodes(_, _)
UpdateNodes(c, triples) ==
    IF triples = <<>> THEN Ok(c)
    ELSE LET parent   == Head(triples)[1]
             children == Head(triples)[2]
             m == either_modified(c, children)
             h == hash_children(c, children)
             w == modify_chunk(c, parent, h.ret)
         IN  IF Failed(m) THEN m
             ELSE IF ~m.ret THEN UpdateNodes(c, Tail(triples))
             ELSE IF Failed(h) THEN h
             ELSE IF Failed(w) THEN w
             ELSE UpdateNodes(w.c, Tail(triples))

\* The triples in the order the loop visits them:
\* internal_parents_and_children().into_iter().rev().
VisitedTriples(overlay) == Reverse(internal_parents_and_children(overlay))

\* for (parent, children) in internal_parents_and_children().into_iter().rev()
update_internal_nodes(c, overlay) == UpdateNodes(c, VisitedTriples(overlay))

tree_hash_root(c) ==
    IF is_empty(c) THEN Err(c, "CacheNotInitialized", 0)
    ELSE IF InRange(c.bytes, 0, HASHSIZE) THEN OkRet(c, Slice(c.bytes, 0, HASHSIZE))
    ELSE Err(c, "NoBytesForRoot", 0)

\* Mutant: the mixed root follows the data root's flag alone.
mix_in_length_root_flag_only(c, chunk_range, length, checked) ==
    LET u == maybe_update_chunk(c, chunk_range[2], int_to_bytes32(length))
        children == <<chunk_range[1], chunk_range[2]>>
        m == changed(u.c, chunk_range[1])
        h == hash_children(u.c, children)
    IN  IF Failed(u) THEN u
        ELSE IF Failed(m) THEN m
        ELSE IF ~m.ret THEN Ok(u.c)
        ELSE IF chunk_range[1] = 0 THEN Panic(u.c)
        ELSE IF Failed(h) THEN h
        ELSE modify_chunk(u.c, chunk_range[1] - 1, h.ret)

\* `checked` is whether the build checks arithmetic overflow: with checks
\* `chunk_range.start - 1` aborts at start = 0, without it wraps.
mix_in_length(c, chunk_range, length, checked) ==
    LET u == maybe_update_chunk(c, chunk_range[2], int_to_bytes32(length))
        children == <<chunk_range[1], chunk_range[2]>>
        m == either_modified(u.c, children)
        h == hash_children(u.c, children)
        root == IF chunk_range[1] = 0 THEN USIZE_MAX ELSE chunk_range[1] - 1
    IN  IF Failed(u) THEN u
        ELSE IF Failed(m) THEN m
        ELSE IF ~m.ret THEN Ok(u.c)
        ELSE IF chunk_range[1] = 0 /\ checked THEN Panic(u.c)
        ELSE IF Failed(h) THEN h
        ELSE modify_chunk(u.c, root, h.ret)

\* Mutant: the data root is not marked dirty before the nodes are added.
add_length_nodes_no_flag(c, chunk_range, length, checked) ==
    LET start == chunk_range[1]
        end   == chunk_range[2]
        br == node_range_to_byte_range(chunk_range)
        c2 == [c  EXCEPT !.bytes = VecSplice(c.bytes, br[2], br[2], Zeros(HASHSIZE))]
        c3 == [c2 EXCEPT !.chunk_modified =
                             VecSplice(c2.chunk_modified, end, end, <<FALSE>>)]
        c4 == [c3 EXCEPT !.bytes = VecSplice(c3.bytes, br[1], br[1], Zeros(HASHSIZE))]
        c5 == [c4 EXCEPT !.chunk_modified =
                             VecSplice(c4.chunk_modified, start, start, <<FALSE>>)]
    IN  IF start >= Len(c.chunk_modified) THEN Panic(c)
        ELSE IF br[2] > Len(c.bytes) THEN Panic(c)
        ELSE IF end > Len(c2.chunk_modified) THEN Panic(c2)
        ELSE IF br[1] > Len(c3.bytes) THEN Panic(c3)
        ELSE IF start > Len(c4.chunk_modified) THEN Panic(c4)
        ELSE mix_in_length(c5, <<start + 1, end + 1>>, length, checked)

add_length_nodes(c, chunk_range, length, checked) ==
    LET start == chunk_range[1]
        end   == chunk_range[2]
        br == node_range_to_byte_range(chunk_range)
        c1 == [c  EXCEPT !.chunk_modified = VecSet(c.chunk_modified, start, TRUE)]
        c2 == [c1 EXCEPT !.bytes = VecSplice(c1.bytes, br[2], br[2], Zeros(HASHSIZE))]
        c3 == [c2 EXCEPT !.chunk_modified =
                             VecSplice(c2.chunk_modified, end, end, <<FALSE>>)]
        c4 == [c3 EXCEPT !.bytes = VecSplice(c3.bytes, br[1], br[1], Zeros(HASHSIZE))]
        c5 == [c4 EXCEPT !.chunk_modified =
                             VecSplice(c4.chunk_modified, start, start, <<FALSE>>)]
    IN  IF start >= Len(c.chunk_modified) THEN Panic(c)
        ELSE IF br[2] > Len(c1.bytes) THEN Panic(c1)
        ELSE IF end > Len(c2.chunk_modified) THEN Panic(c2)
        ELSE IF br[1] > Len(c3.bytes) THEN Panic(c3)
        ELSE IF start > Len(c4.chunk_modified) THEN Panic(c4)
        ELSE mix_in_length(c5, <<start + 1, end + 1>>, length, checked)

\* The first subtree whose tree_hash_root fails, 0 when none does.
FirstFailedRoot(subtrees) ==
    LET bad == {i \in 1..Len(subtrees) : Failed(tree_hash_root(subtrees[i]))}
    IN  IF bad = {} THEN 0 ELSE CHOOSE i \in bad : \A j \in bad : i <= j

\* Mutant: the item's own schema is pushed after the subtrees' schemas.
from_subtrees_schema_last(is_list, subtrees, depth) ==
    LET overlay == into_overlay(Schema(depth, Len(subtrees), is_list), 0)
        num_provided_leaf_nodes == Len(subtrees)
        internal_node_bytes == num_internal_nodes(overlay) * BYTES_PER_CHUNK
        failed == FirstFailedRoot(subtrees)
        leaves == Flatten([i \in 1..Len(subtrees) |-> tree_hash_root(subtrees[i]).ret])
        b0 == Zeros(internal_node_bytes)
                \o Flatten([i \in 1..Len(subtrees) |-> subtrees[i].bytes])
        s0 == Flatten([i \in 1..Len(subtrees) |-> subtrees[i].schemas])
                \o (IF is_list THEN <<into_schema(overlay)>> ELSE <<>>)
        b1 == pad_for_leaf_count(num_provided_leaf_nodes, b0)
        merkleized == merkleize(leaves)
        b2 == VecSplice(b1, 0, internal_node_bytes,
                        Slice(merkleized, 0, internal_node_bytes))
    IN  IF failed # 0
        THEN Err(default, tree_hash_root(subtrees[failed]).err, 0)
        ELSE IF internal_node_bytes > Len(merkleized) THEN Panic(default)
        ELSE Ok(TreeHashCache(b2, Repeat(TRUE, Len(b2) \div BYTES_PER_CHUNK), s0, 0, 0))

\* from_subtrees(item, subtrees, depth): `is_list` is whether the item's
\* tree_hash_type is List; the item's overlay has one leaf per subtree.
from_subtrees(is_list, subtrees, depth) ==
    LET overlay == into_overlay(Schema(depth, Len(subtrees), is_list), 0)
        num_provided_leaf_nodes == Len(subtrees)
        internal_node_bytes == num_internal_nodes(overlay) * BYTES_PER_CHUNK
        failed == FirstFailedRoot(subtrees)
        leaves == Flatten([i \in 1..Len(subtrees) |-> tree_hash_root(subtrees[i]).ret])
        b0 == Zeros(internal_node_bytes)
                \o Flatten([i \in 1..Len(subtrees) |-> subtrees[i].bytes])
        s0 == (IF is_list THEN <<into_schema(overlay)>> ELSE <<>>)
                \o Flatten([i \in 1..Len(subtrees) |-> subtrees[i].schemas])
        b1 == pad_for_leaf_count(num_provided_leaf_nodes, b0)
        merkleized == merkleize(leaves)
        b2 == VecSplice(b1, 0, internal_node_bytes,
                        Slice(merkleized, 0, internal_node_bytes))
    IN  IF failed # 0
        THEN Err(default, tree_hash_root(subtrees[failed]).err, 0)
        ELSE IF internal_node_bytes > Len(merkleized) THEN Panic(default)
        ELSE Ok(TreeHashCache(b2, Repeat(TRUE, Len(b2) \div BYTES_PER_CHUNK), s0, 0, 0))

(***************************************************************************)
(* The serialized cache.  TreeHashCache derives Encode and Decode: the     *)
(* fields are written one after the other in declaration order and read    *)
(* back the same way, each by its own type's decoder.  A vector is its     *)
(* item count followed by its items, a bool is 0 or 1, a schema is its     *)
(* depth, leaf count and list flag, a usize is one number.                 *)
(***************************************************************************)
EncodeVec(items) == <<Len(items)>> \o items

EncodeBool(b) == IF b THEN 1 ELSE 0

EncodeSchema(schema) == <<schema.depth, schema.leaves, EncodeBool(schema.list)>>

ssz_encode(c) ==
    EncodeVec(c.bytes)
    \o EncodeVec([i \in 1..Len(c.chunk_modified) |-> EncodeBool(c.chunk_modified[i])])
    \o <<Len(c.schemas)>>
    \o Flatten([i \in 1..Len(c.schemas) |-> EncodeSchema(c.schemas[i])])
    \o <<c.chunk_index, c.schema_index>>

\* The vector of items of `width` numbers each that starts at offset `at`
\* of the stream: whether it is all there, its items' numbers, and the
\* offset after it.
DecodeVec(stream, at, width) ==
    IF at < Len(stream) /\ at + 1 + stream[at + 1] * width <= Len(stream)
    THEN [ok |-> TRUE,
          items |-> Slice(stream, at + 1, at + 1 + stream[at + 1] * width),
          next |-> at + 1 + stream[at + 1] * width]
    ELSE [ok |-> FALSE, items |-> <<>>, next |-> at]

DecodeSchemas(items) ==
    [i \in 1..(Len(items) \div 3) |->
        Schema(items[3 * i - 2], items[3 * i - 1], items[3 * i] = 1)]

ssz_decode(stream) ==
    LET b == DecodeVec(stream, 0, 1)
        m == DecodeVec(stream, b.next, 1)
        s == DecodeVec(stream, m.next, 3)
    IN  IF ~b.ok \/ ~m.ok \/ ~s.ok THEN Err(default, "DecodeError", 0)
        ELSE IF \E i \in 1..Len(m.items) : m.items[i] \notin {0, 1}
        THEN Err(default, "DecodeError", 0)
        ELSE IF \E i \in 1..(Len(s.items) \div 3) : s.items[3 * i] \notin {0, 1}
        THEN Err(default, "DecodeError", 0)
        ELSE IF s.next + 2 # Len(stream) THEN Err(default, "DecodeError", 0)
        ELSE Ok(TreeHashCache(b.items,
                              [i \in 1..Len(m.items) |-> m.items[i] = 1],
                              DecodeSchemas(s.items),
                              stream[s.next + 1], stream[s.next + 2]))

(***************************************************************************)
(* The CachedTreeHash capability of the item handed to `update`: a         *)
(* fixed-shape container whose fields are 32-byte leaves.  Its update      *)
(* routine resolves its overlay at the cursor, moves the cursor to its     *)
(* first leaf, writes each field with maybe_update_chunk (advancing the    *)
(* cursor by one chunk per field) and then rehashes its internal nodes.    *)
(***************************************************************************)
ItemOverlay(item, chunk_index) == into_overlay(Schema(0, Len(item), FALSE), chunk_index)

RECURSIVE UpdateFields(_, _)
UpdateFields(c, fields) ==
    IF fields = <<>> THEN Ok(c)
    ELSE LET w == maybe_update_chunk(c, c.chunk_index, Head(fields))
         IN  IF Failed(w) THEN w
             ELSE UpdateFields([w.c EXCEPT !.chunk_index = @ + 1], Tail(fields))

update_tree_hash_cache(item, c) ==
    LET overlay == ItemOverlay(item, c.chunk_index)
        f == UpdateFields([c EXCEPT !.chunk_index = first_leaf_node(overlay)], item)
    IN  IF Failed(f) THEN f ELSE update_internal_nodes(f.c, overlay)

update(c, item) ==
    IF is_empty(c) THEN Err(c, "CacheNotInitialized", 0)
    ELSE update_tree_hash_cache(item, reset_modifications(c))

(***************************************************************************)
(* The RPC frame decoder (rpc/protocol.rs).  A packet is the serialized    *)
(* SszContainer: the request flag, the identifier, the method code, and    *)
(* the payload as its length followed by its bytes.  The method enum and   *)
(* the payload types live outside this file: a code stands for a method    *)
(* as listed below, and a payload is a valid encoding of a message type    *)
(* iff it starts with that type's tag.                                     *)
(***************************************************************************)
RpcOk(ret) == [err |-> "Ok", val |-> 0, ret |-> ret]

RpcErr(e) == [err |-> e, val |-> 0, ret |-> <<>>]

\* RPCMethod::from(u16).
RPCMethod_from(code) ==
    CASE code = 0  -> "Hello"
      [] code = 1  -> "Goodbye"
      [] code = 10 -> "BeaconBlockRoots"
      [] code = 11 -> "BeaconBlockHeaders"
      [] code = 12 -> "BeaconBlockBodies"
      [] code = 13 -> "BeaconChainState"
      [] OTHER     -> "Unknown"

MessageTypes ==
    <<"HelloMessage", "GoodbyeReason",
      "BeaconBlockRootsRequest", "BeaconBlockRootsResponse",
      "BeaconBlockHeadersRequest", "BeaconBlockHeadersResponse",
      "BeaconBlockBodiesRequest", "BeaconBlockBodiesResponse",
      "BeaconChainStateRequest", "BeaconChainStateResponse">>

TypeTag(type) == CHOOSE i \in 1..Len(MessageTypes) : MessageTypes[i] = type

\* <type>::from_ssz_bytes(bytes).
from_ssz_bytes(type, b) ==
    IF b # <<>> /\ b[1] = TypeTag(type)
    THEN RpcOk([type |-> type, bytes |-> b])
    ELSE RpcErr("SSZDecodeError")

\* SszContainer::from_ssz_bytes(packet).
SszContainer_from_ssz_bytes(packet) ==
    IF /\ Len(packet) >= 4
       /\ packet[1] \in {0, 1}
       /\ Len(packet) = 4 + packet[4]
    THEN RpcOk([is_request |-> packet[1] = 1, id |-> packet[2], other |-> packet[3],
                bytes |-> Slice(packet, 4, Len(packet))])
    ELSE RpcErr("SSZDecodeError")

\* The message type a method's request body is decoded as.
RequestBodyType(method) ==
    CASE method = "Hello"              -> "HelloMessage"
      [] method = "Goodbye"            -> "GoodbyeReason"
      [] method = "BeaconBlockRoots"   -> "BeaconBlockRootsRequest"
      [] method = "BeaconBlockHeaders" -> "BeaconBlockHeadersRequest"
      [] method = "BeaconBlockBodies"  -> "BeaconBlockBodiesRequest"
      [] method = "BeaconChainState"   -> "BeaconChainStateRequest"

\* The message type a method's response is decoded as.
ResponseResultType(method) ==
    CASE method = "Hello"              -> "HelloMessage"
      [] method = "BeaconBlockRoots"   -> "BeaconBlockRootsResponse"
      [] method = "BeaconBlockHeaders" -> "BeaconBlockHeadersResponse"
      [] method = "BeaconBlockBodies"  -> "BeaconBlockBodiesResponse"
      [] method = "BeaconChainState"   -> "BeaconChainStateResponse"

\* Mutant: a Goodbye response is decoded like a Goodbye request body.
decode_goodbye_response(packet) ==
    LET msg == SszContainer_from_ssz_bytes(packet)
        method == RPCMethod_from(msg.ret.other)
        body == from_ssz_bytes(RequestBodyType(method), msg.ret.bytes)
    IN  IF msg.err # "Ok" THEN msg
        ELSE IF method = "Unknown" THEN RpcErr("UnknownRPCMethod")
        ELSE IF body.err # "Ok" THEN body
        ELSE RpcOk([kind |-> IF msg.ret.is_request THEN "Request" ELSE "Response",
                    id |-> msg.ret.id, method_id |-> msg.ret.other,
                    body |-> body.ret])

decode(packet) ==
    LET msg == SszContainer_from_ssz_bytes(packet)
        method == RPCMethod_from(msg.ret.other)
        body == from_ssz_bytes(RequestBodyType(method), msg.ret.bytes)
        result == from_ssz_bytes(ResponseResultType(method), msg.ret.bytes)
    IN  IF msg.err # "Ok" THEN msg
        ELSE IF msg.ret.is_request
        THEN IF method = "Unknown" THEN RpcErr("UnknownRPCMethod")
             ELSE IF body.err # "Ok" THEN body
             ELSE RpcOk([kind |-> "Request", id |-> msg.ret.id,
                         method_id |-> msg.ret.other, body |-> body.ret])
        ELSE IF method = "Unknown" \/ method = "Goodbye"
             THEN RpcErr("UnknownRPCMethod")
             ELSE IF result.err # "Ok" THEN result
             ELSE RpcOk([kind |-> "Response", id |-> msg.ret.id,
                         method_id |-> msg.ret.other, body |-> result.ret])

(***************************************************************************)
(* Bounds and the inputs the actions draw from.                            *)
(***************************************************************************)
\* Operations applied to the cache in one behaviour.
MaxSteps == 3

\* Largest chunk index handed to the chunk operations.
MaxChunkArg == 3

ChunkZ == Zeros(HASHSIZE)

ChunkA == Repeat(17, HASHSIZE)

ChunkB == Repeat(34, HASHSIZE)

\* Chunks written by maybe_update_chunk / modify_chunk.
ChunkInputs == {ChunkZ, ChunkA}

\* Items (containers of 32-byte fields) given to update.
ItemInputs == {<<ChunkZ, ChunkZ>>, <<ChunkA, ChunkZ>>, <<ChunkZ, ChunkA>>,
               <<ChunkZ, ChunkZ, ChunkZ, ChunkZ>>, <<ChunkZ, ChunkZ, ChunkA, ChunkZ>>}

\* Byte vectors given to from_bytes: empty, ragged, flat chunks, and the
\* images of built trees of two and four leaves.
BytesInputs == {<<>>, <<1>>, ChunkA \o <<1>>,
                ChunkA \o ChunkB \o int_to_bytes32(258),
                merkleize(ChunkA \o ChunkZ),
                merkleize(ChunkZ \o ChunkA \o ChunkZ \o ChunkZ)}

SchemaInputs == {Schema(0, 2, FALSE), Schema(0, 4, TRUE)}

OptionSchemaInputs == {None} \cup {Some(x) : x \in SchemaInputs}

\* Overlays given to update_internal_nodes and replace_overlay.
OverlayInputs == {into_overlay(Schema(0, n, FALSE), 0) : n \in {0, 2, 3, 4, 5}}
                 \cup {into_overlay(Schema(1, 2, FALSE), 1),
                       into_overlay(Schema(0, 1, TRUE), 0)}

\* List lengths given to the length-mixin operations: zero, and one whose
\* encoding takes two bytes.
LengthInputs == {0, 258}

\* Chunk ranges [start, end) given to the length-mixin operations and splice.
RangeInputs == {<<0, 1>>, <<1, 2>>, <<0, 3>>, <<1, 1>>, <<2, 5>>}

\* (bytes, flags) pairs given to splice: one within its input constraints
\* for a range of one chunk, one for an empty range, one outside them.
SpliceInputs == {<<ChunkB, <<TRUE>>>>, <<<<>>, <<>>>>, <<ChunkB, <<>>>>}

(***************************************************************************)
(* State.                                                                  *)
(***************************************************************************)
VARIABLES
    bytes,            \* TreeHashCache.bytes
    chunk_modified,   \* TreeHashCache.chunk_modified
    schemas,          \* TreeHashCache.schemas
    chunk_index,      \* TreeHashCache.chunk_index
    schema_index,     \* TreeHashCache.schema_index
    last,             \* the last operation: name, arguments, error, payload, result
    prev_update,      \* the item of the operation before the last one when that
                      \* was a successful update, else <<>>
    track,            \* what happened since the last reset_modifications:
                      \* "noop" (no chunk write changed a value), "writes"
                      \* (chunk writes only), "none" (no reset, or another operation)
    in_contract,      \* every splice so far was within its input constraints
    phase,            \* the update of a fixed-shape tree: "reset" (flags cleared on
                      \* a built tree, then only leaf writes), "rehashed" (then its
                      \* internal nodes updated), "other"
    at_reset,         \* the bytes when the flags were last cleared (by
                      \* reset_modifications or by update)
    steps             \* operations applied so far

vars == <<bytes, chunk_modified, schemas, chunk_index, schema_index,
          last, prev_update, track, in_contract, phase, at_reset, steps>>

Cache == TreeHashCache(bytes, chunk_modified, schemas, chunk_index, schema_index)

\* c is the image of a built fixed-shape tree of n literal leaves: 2n - 1
\* chunks, internal nodes first, each the hash of its two children.
BuiltTree(c, n) ==
    /\ Len(c.bytes) = (2 * n - 1) * HASHSIZE
    /\ Len(c.chunk_modified) = 2 * n - 1
    /\ \A i \in 0..(n - 2) :
          ChunkAt(c.bytes, i) = hash(ChunkAt(c.bytes, 2 * i + 1) \o ChunkAt(c.bytes, 2 * i + 2))

\* Leaf counts of the fixed-shape trees the model builds.
TreeSizes == {2, 4}

Built(c) == \E n \in TreeSizes : BuiltTree(c, n)

\* The number of leaves of a cache that holds a whole tree.
TreeLeaves(c) == (Len(c.chunk_modified) + 1) \div 2

TreeOverlay(c) == into_overlay(Schema(0, TreeLeaves(c), FALSE), 0)

Init ==
    /\ bytes = default.bytes
    /\ chunk_modified = default.chunk_modified
    /\ schemas = default.schemas
    /\ chunk_index = default.chunk_index
    /\ schema_index = default.schema_index
    /\ last = [op |-> "default", args |-> <<>>, err |-> "Ok", val |-> 0, ret |-> <<>>,
               flags_before |-> <<>>, schemas_before |-> <<>>]
    /\ prev_update = <<>>
    /\ track = "none"
    /\ in_contract = TRUE
    /\ phase = "other"
    /\ at_reset = <<>>
    /\ steps = 0

\* No operation runs after an abort, and the model stops at MaxSteps.
CanStep == last.err # "Panic" /\ steps < MaxSteps

\* The cache becomes c and the operation's outcome r is recorded.
Record(c, op, args, r) ==
    /\ bytes' = c.bytes
    /\ chunk_modified' = c.chunk_modified
    /\ schemas' = c.schemas
    /\ chunk_index' = c.chunk_index
    /\ schema_index' = c.schema_index
    /\ last' = [op |-> op, args |-> args, err |-> r.err, val |-> r.val, ret |-> r.ret,
                flags_before |-> chunk_modified, schemas_before |-> schemas]
    /\ prev_update' = IF last.op = "update" /\ last.err = "Ok" THEN last.args ELSE <<>>
    /\ at_reset' = IF \/ op = "reset_modifications"
                      \/ op = "update" /\ r.err # "CacheNotInitialized"
                   THEN bytes ELSE at_reset
    /\ steps' = steps + 1

\* A write of `to` at `chunk` that changes no byte.
SameWrite(chunk, to) ==
    LET g == get_chunk(Cache, chunk) IN ~Failed(g) /\ g.ret = to

Written == IF track = "none" THEN "none" ELSE "writes"

FromBytes(b, initial_modified_state, schema) ==
    LET r == from_bytes(b, initial_modified_state, schema)
    IN  /\ CanStep
        /\ Record(IF Failed(r) THEN Cache ELSE r.c, "from_bytes",
                  <<b, initial_modified_state, schema>>, r)
        /\ track' = "none"
        /\ phase' = "other"
        /\ in_contract' = IF Failed(r) THEN in_contract ELSE TRUE

ResetModifications ==
    /\ CanStep
    /\ Record(reset_modifications(Cache), "reset_modifications", <<>>, Ok(Cache))
    /\ track' = "noop"
    /\ phase' = IF Built(Cache) THEN "reset" ELSE "other"
    /\ UNCHANGED in_contract

MaybeUpdateChunk(chunk, to) ==
    LET r == maybe_update_chunk(Cache, chunk, to)
    IN  /\ CanStep
        /\ Record(r.c, "maybe_update_chunk", <<chunk, to>>, r)
        /\ track' = IF Failed(r) \/ SameWrite(chunk, to) THEN track ELSE Written
        /\ phase' = IF phase = "reset" /\ chunk >= first_leaf_node(TreeOverlay(Cache))
                    THEN "reset" ELSE "other"
        /\ UNCHANGED in_contract

ModifyChunk(chunk, to) ==
    LET r == modify_chunk(Cache, chunk, to)
    IN  /\ CanStep
        /\ Record(r.c, "modify_chunk", <<chunk, to>>, r)
        /\ track' = Written
        /\ phase' = "other"
        /\ UNCHANGED in_contract

UpdateInternalNodes(overlay) ==
    LET r == update_internal_nodes(Cache, overlay)
    IN  /\ CanStep
        /\ Record(r.c, "update_internal_nodes", <<overlay>>, r)
        /\ phase' = IF phase = "reset" /\ overlay = TreeOverlay(Cache)
                    THEN "rehashed" ELSE "other"
        /\ UNCHANGED <<track, in_contract>>

MixInLength(chunk_range, length, checked) ==
    LET r == mix_in_length(Cache, chunk_range, length, checked)
    IN  /\ CanStep
        /\ Record(r.c, "mix_in_length", <<chunk_range, length>>, r)
        /\ track' = IF SameWrite(chunk_range[2], int_to_bytes32(length))
                    THEN track ELSE Written
        /\ phase' = "other"
        /\ UNCHANGED in_contract

AddLengthNodes(chunk_range, length, checked) ==
    LET r == add_length_nodes(Cache, chunk_range, length, checked)
    IN  /\ CanStep
        /\ Record(r.c, "add_length_nodes", <<chunk_range, length>>, r)
        /\ track' = "none"
        /\ phase' = "other"
        /\ UNCHANGED in_contract

ReplaceOverlay(si, ci, new_overlay) ==
    LET r == replace_overlay(Cache, si, ci, new_overlay)
    IN  /\ CanStep
        /\ Record(r.c, "replace_overlay", <<si, ci, new_overlay>>, r)
        /\ track' = "none"
        /\ phase' = "other"
        /\ UNCHANGED in_contract

Splice(chunk_range, new_bytes, bools) ==
    LET r == splice(Cache, chunk_range, new_bytes, bools)
    IN  /\ CanStep
        /\ Record(r.c, "splice", <<chunk_range, new_bytes, bools>>, r)
        /\ track' = "none"
        /\ phase' = "other"
        /\ in_contract' = (in_contract
                           /\ Len(new_bytes) = (chunk_range[2] - chunk_range[1]) * HASHSIZE
                           /\ Len(bools) = chunk_range[2] - chunk_range[1])

Update(item) ==
    LET r == update(Cache, item)
        leaf == first_leaf_node(ItemOverlay(item, 0))
    IN  /\ CanStep
        /\ Record(r.c, "update", item, r)
        /\ track' = IF r.err = "CacheNotInitialized" THEN track
                    ELSE IF \A k \in 1..Len(item) : SameWrite(leaf + k - 1, item[k])
                    THEN "noop" ELSE "writes"
        /\ phase' = IF r.err = "CacheNotInitialized" THEN phase
                    ELSE IF Built(Cache) /\ Len(item) = TreeLeaves(Cache)
                    THEN "rehashed" ELSE "other"
        /\ UNCHANGED in_contract

TreeHashRoot ==
    /\ CanStep
    /\ Record(Cache, "tree_hash_root", <<>>, tree_hash_root(Cache))
    /\ UNCHANGED <<track, in_contract, phase>>

\* The subtree caches handed to from_subtrees, by name; "self" is the
\* cache built so far.
SubtreeOf(name) ==
    CASE name = "leaf"  -> from_bytes(ChunkA, FALSE, None).c
      [] name = "list1" -> from_bytes(merkleize(ChunkA \o ChunkZ), FALSE,
                                      Some(Schema(1, 2, TRUE))).c
      [] name = "list2" -> from_bytes(ChunkB, TRUE, Some(Schema(2, 1, TRUE))).c
      [] name = "empty" -> default
      [] OTHER          -> Cache

SubtreeInputs == {<<>>, <<"leaf">>, <<"leaf", "leaf">>, <<"leaf", "list1", "leaf">>,
                  <<"self", "list2">>, <<"list2", "self", "list1">>,
                  <<"leaf", "empty">>}

Consistent(c) == Len(c.chunk_modified) * HASHSIZE = Len(c.bytes)

FromSubtrees(is_list, names, depth) ==
    LET subtrees == [i \in 1..Len(names) |-> SubtreeOf(names[i])]
        r == from_subtrees(is_list, subtrees, depth)
    IN  /\ CanStep
        /\ Record(IF Failed(r) THEN Cache ELSE r.c, "from_subtrees",
                  <<is_list, subtrees, depth>>, r)
        /\ track' = "none"
        /\ phase' = "other"
        /\ in_contract' = IF Failed(r) THEN in_contract ELSE Consistent(r.c)

RemoveProceedingChildSchemas(si, depth) ==
    LET r == remove_proceeding_child_schemas(Cache, si, depth)
    IN  /\ CanStep
        /\ Record(r.c, "remove_proceeding_child_schemas", <<si, depth>>, r)
        /\ phase' = "other"
        /\ UNCHANGED <<track, in_contract>>

\* Serialized caches handed to the decoder: encodings of caches (empty,
\* built, with ragged bytes, with one flag too many), a stream cut short
\* and one with a flag that is no bool.
StreamInputs ==
    {ssz_encode(default),
     ssz_encode(TreeHashCache(merkleize(ChunkA \o ChunkZ), <<FALSE, FALSE, TRUE>>,
                              <<Schema(0, 2, FALSE)>>, 0, 0)),
     ssz_encode(TreeHashCache(ChunkA \o <<1>>, <<TRUE>>, <<>>, 0, 0)),
     ssz_encode(TreeHashCache(ChunkA, <<TRUE, FALSE>>, <<>>, 0, 0)),
     <<5, 1>>,
     <<0, 1, 7, 0, 0, 0>>}

\* Decode of a stream; `own` is whether the stream is the encoding of the
\* cache itself.
Decode(stream, own) ==
    LET input == IF own THEN ssz_encode(Cache) ELSE stream
        r == ssz_decode(input)
    IN  /\ CanStep
        /\ Record(IF Failed(r) THEN Cache ELSE r.c, "decode", <<input>>, r)
        /\ track' = "none"
        /\ phase' = "other"
        /\ in_contract' = IF Failed(r) THEN in_contract ELSE Consistent(r.c)

Next ==
    \/ \E b \in BytesInputs, f \in BOOLEAN, s \in OptionSchemaInputs : FromBytes(b, f, s)
    \/ ResetModifications
    \/ \E c \in 0..MaxChunkArg, to \in ChunkInputs : MaybeUpdateChunk(c, to)
    \/ \E c \in 0..MaxChunkArg, to \in ChunkInputs : ModifyChunk(c, to)
    \/ \E o \in OverlayInputs : UpdateInternalNodes(o)
    \/ \E r \in RangeInputs, n \in LengthInputs, k \in BOOLEAN : MixInLength(r, n, k)
    \/ \E r \in RangeInputs, n \in LengthInputs, k \in BOOLEAN : AddLengthNodes(r, n, k)
    \/ \E si \in 0..1, ci \in 0..1, o \in OverlayInputs : ReplaceOverlay(si, ci, o)
    \/ \E r \in RangeInputs, x \in SpliceInputs : Splice(r, x[1], x[2])
    \/ \E x \in ItemInputs : Update(x)
    \/ TreeHashRoot

Spec == Init /\ [][Next]_vars

(***************************************************************************)
(* The update of a fixed-shape tree.  The cache starts as the built image  *)
(* of a container of four 32-byte fields; the operations are those an      *)
(* update makes: reset_modifications, maybe_update_chunk on the leaves,    *)
(* update_internal_nodes on the container's overlay, and update itself.    *)
(***************************************************************************)
FieldInputs == {ChunkZ, ChunkA}

TreeItems == {<<a, b, c, d>> : a \in FieldInputs, b \in FieldInputs,
                               c \in {ChunkZ}, d \in FieldInputs}

TreeOverlay4 == into_overlay(Schema(0, 4, FALSE), 0)

InitTree ==
    \E item \in TreeItems, f \in BOOLEAN :
        LET c == from_bytes(merkleize(Flatten(item)), f, None).c
        IN  /\ bytes = c.bytes
            /\ chunk_modified = c.chunk_modified
            /\ schemas = c.schemas
            /\ chunk_index = c.chunk_index
            /\ schema_index = c.schema_index
            /\ last = [op |-> "from_bytes", args |-> <<>>, err |-> "Ok",
                       val |-> 0, ret |-> <<>>, flags_before |-> <<>>,
                       schemas_before |-> <<>>]
            /\ prev_update = <<>>
            /\ track = "none"
            /\ in_contract = TRUE
            /\ phase = "other"
            /\ at_reset = <<>>
            /\ steps = 0

NextTree ==
    \/ ResetModifications
    \/ \E c \in 3..6, to \in FieldInputs : MaybeUpdateChunk(c, to)
    \/ UpdateInternalNodes(TreeOverlay4)
    \/ \E x \in TreeItems : Update(x)
    \/ TreeHashRoot

SpecUpdate == InitTree /\ [][NextTree]_vars

(***************************************************************************)
(* Building, pruning and decoding.  The cache starts empty; it is built   *)
(* from subtrees (the cache built so far among them), its schema list is   *)
(* pruned, and it is decoded from a serialized cache (its own encoding     *)
(* among the streams).                                                     *)
(***************************************************************************)
NextBuild ==
    \/ \E l \in BOOLEAN, x \in SubtreeInputs, d \in 0..1 : FromSubtrees(l, x, d)
    \/ \E si \in 0..3, d \in 0..2 : RemoveProceedingChildSchemas(si, d)
    \/ \E x \in StreamInputs, own \in BOOLEAN : Decode(x, own)

SpecBuild == Init /\ [][NextBuild]_vars

(***************************************************************************)
(* The RPC frame decoder: packets arrive one after the other and each is   *)
(* decoded on its own.                                                     *)
(***************************************************************************)
\* Payloads: empty, and one valid encoding of each message type.
PayloadInputs == {<<>>} \cup {<<t, 5>> : t \in 1..Len(MessageTypes)}

\* Packets: every flag, two identifiers, the six method codes and two
\* others, every payload; and three packets that are no container.
PacketInputs ==
    {<<f, id, code, Len(b)>> \o b :
        f \in {0, 1}, id \in {0, 7}, code \in {0, 1, 2, 10, 11, 12, 13, 14},
        b \in PayloadInputs}
    \cup {<<1, 0>>, <<2, 0, 0, 0>>, <<1, 0, 0, 3, 1>>}

DecodePacket(packet) ==
    /\ CanStep
    /\ Record(Cache, "decode_packet", <<packet>>, decode(packet))
    /\ UNCHANGED <<track, in_contract, phase>>

NextRpc == \E packet \in PacketInputs : DecodePacket(packet)

SpecRpc == Init /\ [][NextRpc]_vars

(***************************************************************************)
(* Replacing overlays in a composite cache.  The cache starts empty; it is *)
(* built from subtrees or decoded from a serialized cache that was saved   *)
(* with its cursors advanced, its flags are cleared, and an overlay is     *)
(* replaced at each of its schema indices, resolved at chunk indices       *)
(* inside and beyond the cache.                                            *)
(***************************************************************************)
\* A composite cache of nine chunks and two schemas (a list of a leaf, a
\* nested list and a leaf), serialized in the middle of an update: some
\* flags set, the cursors at the nested list.
SavedStreamInputs ==
    {ssz_encode([from_subtrees(TRUE, <<SubtreeOf("leaf"), SubtreeOf("list1"),
                                       SubtreeOf("leaf")>>, 0).c
                    EXCEPT !.chunk_modified = <<FALSE, TRUE, FALSE, FALSE, TRUE,
                                                FALSE, FALSE, FALSE, FALSE>>,
                           !.chunk_index = 4,
                           !.schema_index = 1])}

\* Chunk indices at which replace_overlay resolves the overlay: the start,
\* the nested list of the composite caches, and an index past their end.
ChunkIndexInputs == {0, 4, 9}

NextReplace ==
    \/ \E l \in BOOLEAN, x \in SubtreeInputs, d \in 0..1 : FromSubtrees(l, x, d)
    \/ \E x \in SavedStreamInputs : Decode(x, FALSE)
    \/ ResetModifications
    \/ \E si \in 0..2, ci \in ChunkIndexInputs, o \in OverlayInputs :
          ReplaceOverlay(si, ci, o)

SpecReplace == Init /\ [][NextReplace]_vars

(***************************************************************************)
(* Claims.                                                                 *)
(***************************************************************************)
LastOk(op) == last.op = op /\ last.err = "Ok"

\* The leaves of a cache that holds a whole fixed-shape tree.
LeafBytes(c) ==
    Slice(c.bytes, (TreeLeaves(c) - 1) * HASHSIZE, (2 * TreeLeaves(c) - 1) * HASHSIZE)

\* The root of a cache freshly built from the leaves c holds now.
FreshRoot(c) == Slice(merkleize(LeafBytes(c)), 0, HASHSIZE)

\* C1: on a built fixed-shape tree, after reset_modifications, any writes of
\* leaf chunks with maybe_update_chunk and then update_internal_nodes on the
\* tree's overlay, every internal chunk is again the hash of its two
\* children and the root is the root of a cache built from the new leaves.
C1_UpdateRestoresTree ==
    (phase = "rehashed" /\ last.err = "Ok") =>
        /\ Built(Cache)
        /\ tree_hash_root(Cache).ret = FreshRoot(Cache)

\* The chunks of a tree of n leaves that are c or an ancestor of c.
RECURSIVE UpToRoot(_)
UpToRoot(c) == IF c = 0 THEN {0} ELSE {c} \cup UpToRoot((c - 1) \div 2)

\* C6: after an update of a built fixed-shape tree, the dirty chunks are
\* exactly the leaves whose value changed and their ancestors up to the
\* root; every other chunk is clean and keeps its bytes.
C6_DirtyExactlyChangedPaths ==
    [][ (last'.op = "update" /\ last'.err = "Ok"
         /\ Built(Cache) /\ Len(last'.args) = TreeLeaves(Cache))
        => LET n == TreeLeaves(Cache)
               S == {c \in (n - 1)..(2 * n - 2) : ChunkAt(bytes, c) # ChunkAt(bytes', c)}
               D == UNION {UpToRoot(c) : c \in S}
           IN  \A c \in 0..(2 * n - 2) :
                 /\ chunk_modified'[c + 1] <=> c \in D
                 /\ c \notin D => ChunkAt(bytes', c) = ChunkAt(bytes, c) ]_vars

C3_NoopUpdateLeavesFlagsClear ==
    track = "noop" => \A i \in 1..Len(chunk_modified) : ~chunk_modified[i]

C3_Witness ==
    /\ track = "noop"
    /\ LastOk("update")
    /\ Len(chunk_modified) = 3

\* C4: an update that follows a successful update with the same item changes
\* no byte of the cache, so tree_hash_root() is the same after both.
C4_UpdateIdempotent ==
    [][ (LastOk("update") /\ last'.op = "update" /\ last'.err = "Ok"
         /\ last'.args = last.args)
        => /\ bytes' = bytes
           /\ tree_hash_root(Cache').ret = tree_hash_root(Cache).ret ]_vars

C4_Witness ==
    /\ LastOk("update")
    /\ prev_update = last.args
    /\ \E i \in 1..Len(bytes) : bytes[i] # 0

\* C5: on a cache with no chunks, update and tree_hash_root fail with
\* CacheNotInitialized and leave every field of the cache as it was.
C5_EmptyCacheNotInitialized ==
    [][ (bytes = <<>> /\ chunk_modified = <<>>
         /\ last'.op \in {"update", "tree_hash_root"})
        => /\ last'.err = "CacheNotInitialized"
           /\ UNCHANGED <<bytes, chunk_modified, schemas, chunk_index, schema_index>> ]_vars

C5_Witness ==
    /\ last.op = "update"
    /\ last.err = "CacheNotInitialized"
    /\ schemas # <<>>

\* The chunk is the 32-byte little-endian encoding of n (n < 2^24).
IsLittleEndian32(chunk, n) ==
    /\ Len(chunk) = 32
    /\ chunk[1] + 256 * chunk[2] + 65536 * chunk[3] = n
    /\ \A i \in 4..32 : chunk[i] = 0

\* C7: add_length_nodes(range, len) on a valid non-empty range succeeds and
\* leaves two more chunks, the range's chunks one place further with the same
\* bytes, the chunk at range.end + 1 the little-endian encoding of len, and
\* the chunk at range.start dirty and equal to
\* hash(chunk[range.start + 1] || chunk[range.end + 1]).
C7_AddLengthNodes ==
    [][ (last'.op = "add_length_nodes" /\ last.err # "Panic" /\ in_contract
         /\ 0 <= last'.args[1][1] /\ last'.args[1][1] < last'.args[1][2]
         /\ last'.args[1][2] <= Len(chunk_modified))
        => LET start == last'.args[1][1]
               end   == last'.args[1][2]
           IN  /\ last'.err = "Ok"
               /\ Len(chunk_modified') = Len(chunk_modified) + 2
               /\ Len(bytes') = Len(bytes) + 2 * HASHSIZE
               /\ \A i \in start..(end - 1) : ChunkAt(bytes', i + 1) = ChunkAt(bytes, i)
               /\ IsLittleEndian32(ChunkAt(bytes', end + 1), last'.args[2])
               /\ ChunkAt(bytes', start)
                    = hash(ChunkAt(bytes', start + 1) \o ChunkAt(bytes', end + 1))
               /\ chunk_modified'[start + 1] ]_vars

C7_Witness ==
    /\ LastOk("add_length_nodes")
    /\ last.args = <<<<0, 3>>, 0>>
    /\ Len(chunk_modified) = 5
    /\ ~chunk_modified[5]

\* The chunk before range.start after a successful mix_in_length: rewritten
\* (the hash of the data root and the length chunk, dirty) or untouched.
MixedRootRewritten(start, end) ==
    /\ ChunkAt(bytes', start - 1) = hash(ChunkAt(bytes', start) \o ChunkAt(bytes', end))
    /\ chunk_modified'[start]

MixedRootUntouched(start) ==
    /\ ChunkAt(bytes', start - 1) = ChunkAt(bytes, start - 1)
    /\ chunk_modified'[start] = chunk_modified[start]

MixInLengthStepFrom1 ==
    last'.op = "mix_in_length" /\ last'.err = "Ok" /\ last'.args[1][1] >= 1

\* C8 as claimed: mix_in_length with range.start >= 1 rewrites the mixed
\* root iff the data root is dirty or the length chunk is changed by this
\* call, and otherwise leaves its bytes and flag untouched.
C8_RewrittenIffChangedByCall ==
    [][ MixInLengthStepFrom1
        => LET start == last'.args[1][1]
               end   == last'.args[1][2]
           IN  IF \/ chunk_modified[start + 1]
                  \/ ChunkAt(bytes', end) # ChunkAt(bytes, end)
               THEN MixedRootRewritten(start, end)
               ELSE MixedRootUntouched(start) ]_vars

\* C8 amended: mix_in_length with range.start >= 1 rewrites the mixed root
\* iff the data root is dirty or the length chunk is dirty once the length
\* is written (changed by this call, or dirty before it), and otherwise
\* leaves its bytes and flag untouched.
C8_RewrittenIffEitherDirty ==
    [][ MixInLengthStepFrom1
        => LET start == last'.args[1][1]
               end   == last'.args[1][2]
           IN  IF \/ chunk_modified[start + 1]
                  \/ chunk_modified[end + 1]
                  \/ ChunkAt(bytes', end) # ChunkAt(bytes, end)
               THEN MixedRootRewritten(start, end)
               ELSE MixedRootUntouched(start) ]_vars

C8_Witness ==
    /\ LastOk("mix_in_length")
    /\ last.args[1] = <<1, 2>>
    /\ last.args[2] = 0
    /\ last.flags_before = <<FALSE, FALSE, TRUE>>
    /\ chunk_modified = <<TRUE, FALSE, TRUE>>

\* C9: from_bytes fails with BytesAreNotEvenChunks(bytes.len()) exactly when
\* bytes.len() is not a multiple of HASHSIZE; otherwise the cache holds the
\* bytes, bytes.len() / HASHSIZE flags all equal to the given flag, zero
\* cursors and a schema list that is empty or holds the given schema.
C9_FromBytes ==
    last.op = "from_bytes" /\ last.args # <<>> =>
        LET b == last.args[1]
            flag == last.args[2]
            schema == last.args[3]
        IN  /\ last.err = "BytesAreNotEvenChunks" <=> Len(b) % HASHSIZE # 0
            /\ last.err = "BytesAreNotEvenChunks" => last.val = Len(b)
            /\ last.err # "BytesAreNotEvenChunks" =>
                 /\ last.err = "Ok"
                 /\ bytes = b
                 /\ Len(chunk_modified) * HASHSIZE = Len(b)
                 /\ \A i \in 1..Len(chunk_modified) : chunk_modified[i] = flag
                 /\ chunk_index = 0 /\ schema_index = 0
                 /\ schemas = IF schema.some THEN <<schema.schema>> ELSE <<>>

C9_Witness ==
    /\ last.op = "from_bytes"
    /\ last.err = "BytesAreNotEvenChunks"
    /\ last.val = 33

\* The logical position of internal node p (level order) in a region of
\* `levels` levels: its level counted from the deepest, and its index from
\* the left within the level.
LogicalPosition(p, levels) ==
    <<levels - 1 - DepthOfNode(p, 0), p - (Pow2(DepthOfNode(p, 0)) - 1)>>

\* The number of levels of an internal region of n = 2^k - 1 nodes.
LevelsOf(n) == CeilLog2From(n + 1, 0)

SameChunk(i, j) ==
    /\ ChunkAt(bytes', i) = ChunkAt(bytes, j)
    /\ chunk_modified'[i + 1] = chunk_modified[j + 1]

\* C11: a successful replace_overlay from an overlay of zero internal nodes
\* to one of n > 0 inserts exactly n zero, dirty chunks at the chunk index;
\* one to an overlay of zero internal nodes removes exactly the old
\* overlay's internal chunks; every other chunk keeps its bytes, its flag and
\* its order.
C11_ReplaceOverlayEmptyRegion ==
    [][ (last'.op = "replace_overlay" /\ last'.err = "Ok" /\ in_contract)
        => LET ci  == last'.args[2]
               old == num_internal_nodes(last'.ret)
               new == num_internal_nodes(last'.args[3])
               N   == Len(chunk_modified)
           IN  /\ (old = 0 /\ new > 0) =>
                     /\ Len(chunk_modified') = N + new
                     /\ Len(bytes') = Len(bytes) + new * HASHSIZE
                     /\ \A i \in 0..(ci - 1) : SameChunk(i, i)
                     /\ \A i \in ci..(ci + new - 1) :
                            ChunkAt(bytes', i) = Zeros(HASHSIZE) /\ chunk_modified'[i + 1]
                     /\ \A i \in ci..(N - 1) : SameChunk(i + new, i)
               /\ (new = 0 /\ old > 0) =>
                     /\ Len(chunk_modified') = N - old
                     /\ Len(bytes') = Len(bytes) - old * HASHSIZE
                     /\ \A i \in 0..(ci - 1) : SameChunk(i, i)
                     /\ \A i \in (ci + old)..(N - 1) : SameChunk(i - old, i) ]_vars

C11_Witness ==
    /\ LastOk("replace_overlay")
    /\ in_contract
    /\ last.ret.leaves = 0
    /\ last.args[3].leaves = 4
    /\ last.args[2] = 1
    /\ last.flags_before = <<FALSE, FALSE>>
    /\ chunk_modified = <<FALSE, TRUE, TRUE, TRUE, FALSE>>

C13_RemoveNeverFails ==
    last.op = "remove_proceeding_child_schemas" => last.err = "Ok"

\* C15: after from_subtrees from a number of subtrees that is not a power of
\* two, the padding chunks appended to the cache are zero and clean.
C15_PaddingZeroAndClean ==
    (LastOk("from_subtrees")
     /\ next_power_of_two(Len(last.args[2])) # Len(last.args[2]))
    => LET pad == next_power_of_two(Len(last.args[2])) - Len(last.args[2])
           N   == Len(chunk_modified)
       IN  \A i \in (N - pad)..(N - 1) :
             /\ ChunkAt(bytes, i) = Zeros(HASHSIZE)
             /\ ~chunk_modified[i + 1]

\* C16: every cache obtained by decoding has bytes of a multiple of HASHSIZE
\* and one flag per chunk; other inputs are rejected.
C16_DecodeKeepsLengthInvariant ==
    LastOk("decode") =>
        /\ Len(bytes) % HASHSIZE = 0
        /\ Len(chunk_modified) * HASHSIZE = Len(bytes)

\* C14: in every state reached after reset_modifications by maybe_update_chunk,
\* modify_chunk, mix_in_length and update_internal_nodes (and by update,
\* which is made of these), every chunk whose bytes differ from the bytes it
\* held at that reset has its chunk_modified flag set.
C14_DirtyBitmapConservative ==
    (track # "none" /\ last.err # "Panic") =>
        /\ Len(at_reset) = Len(bytes)
        /\ \A i \in 0..(NumChunks(bytes) - 1) :
             ChunkAt(bytes, i) # ChunkAt(at_reset, i)
                => i < Len(chunk_modified) /\ chunk_modified[i + 1]

C14_Witness ==
    /\ track = "writes"
    /\ LastOk("mix_in_length")
    /\ steps = 3
    /\ chunk_modified = <<TRUE, FALSE, TRUE>>
    /\ ChunkAt(bytes, 0) # ChunkAt(at_reset, 0)
    /\ ChunkAt(bytes, 2) # ChunkAt(at_reset, 2)

\* The overlay has internal nodes and its last child lies beyond the end of
\* the cache.
ReferencesBeyondEnd(overlay) ==
    /\ num_internal_nodes(overlay) > 0
    /\ overlay.chunk_index + 2 * num_internal_nodes(overlay) >= Len(chunk_modified)

\* C17: update_internal_nodes(overlay) with an overlay that references a
\* parent or child chunk beyond the end of the cache fails with
\* NoBytesForChunk.
C17_BeyondEndNoBytesForChunk ==
    (last.op = "update_internal_nodes" /\ in_contract
     /\ ReferencesBeyondEnd(last.args[1]))
    => last.err = "NoBytesForChunk"

\* The codes of the six methods; Goodbye is code 1.
KnownMethodCodes == {0, 1, 10, 11, 12, 13}

GoodbyeCodes == {1}

\* The packet is a container: flag, identifier, method code, payload.
IsContainer(packet) ==
    Len(packet) >= 4 /\ packet[1] \in {0, 1} /\ Len(packet) = 4 + packet[4]

\* The packet's payload is a valid encoding of the type.
PayloadIs(packet, type) ==
    Len(packet) > 4 /\ \E i \in 1..Len(MessageTypes) :
                          MessageTypes[i] = type /\ packet[5] = i

\* The payload is valid for the method code as a request body.
ValidRequestPayload(packet) ==
    \/ packet[3] = 0  /\ PayloadIs(packet, "HelloMessage")
    \/ packet[3] = 1  /\ PayloadIs(packet, "GoodbyeReason")
    \/ packet[3] = 10 /\ PayloadIs(packet, "BeaconBlockRootsRequest")
    \/ packet[3] = 11 /\ PayloadIs(packet, "BeaconBlockHeadersRequest")
    \/ packet[3] = 12 /\ PayloadIs(packet, "BeaconBlockBodiesRequest")
    \/ packet[3] = 13 /\ PayloadIs(packet, "BeaconChainStateRequest")

\* The payload is valid for the method code as a response.
ValidResponsePayload(packet) ==
    \/ packet[3] = 0  /\ PayloadIs(packet, "HelloMessage")
    \/ packet[3] = 10 /\ PayloadIs(packet, "BeaconBlockRootsResponse")
    \/ packet[3] = 11 /\ PayloadIs(packet, "BeaconBlockHeadersResponse")
    \/ packet[3] = 12 /\ PayloadIs(packet, "BeaconBlockBodiesResponse")
    \/ packet[3] = 13 /\ PayloadIs(packet, "BeaconChainStateResponse")

\* C18: the frame decoder rejects with UnknownRPCMethod every frame whose
\* method code is not one of the six methods and every response frame whose
\* code is Goodbye; a request frame with a known code and a valid payload
\* decodes to a Request, a response frame with a known code other than
\* Goodbye and a valid payload to a Response, each with the frame's
\* identifier and method code.
C18_FrameDecoder ==
    (last.op = "decode_packet" /\ IsContainer(last.args[1])) =>
        LET packet == last.args[1]
        IN  /\ packet[3] \notin KnownMethodCodes => last.err = "UnknownRPCMethod"
            /\ (packet[1] = 0 /\ packet[3] \in GoodbyeCodes) => last.err = "UnknownRPCMethod"
            /\ (packet[1] = 1 /\ packet[3] \in KnownMethodCodes
                /\ ValidRequestPayload(packet))
               => /\ last.err = "Ok"
                  /\ last.ret.kind = "Request"
                  /\ last.ret.id = packet[2]
                  /\ last.ret.method_id = packet[3]
            /\ (packet[1] = 0 /\ packet[3] \in KnownMethodCodes \ GoodbyeCodes
                /\ ValidResponsePayload(packet))
               => /\ last.err = "Ok"
                  /\ last.ret.kind = "Response"
                  /\ last.ret.id = packet[2]
                  /\ last.ret.method_id = packet[3]

C18_Witness ==
    /\ last.op = "decode_packet"
    /\ last.args[1] = <<0, 7, 1, 2, 2, 5>>
    /\ last.err = "UnknownRPCMethod"
    /\ steps = 3

\* C19: a single-leaf list overlay has one internal node, and after
\* replace_overlay has grown a list overlay from 0 leaves to 1 leaf the new
\* root chunk, at the overlay's chunk index, is marked dirty.
C19_SingleLeafRootDirty ==
    (LastOk("replace_overlay") /\ in_contract
     /\ last.ret.leaves = 0 /\ last.args[3].leaves = 1)
    => /\ num_internal_nodes(last.args[3]) = 1
       /\ last.args[2] < Len(chunk_modified)
       /\ chunk_modified[last.args[2] + 1]

\* C20: update_internal_nodes visits every parent after those of its
\* children that are internal nodes of the same overlay, so that after one
\* successful pass a dirty leaf has made the overlay's root dirty.
C20_ParentsAfterChildren ==
    (LastOk("update_internal_nodes") /\ last.args[1] = TreeOverlay(Cache))
    => LET overlay == last.args[1]
           visited == VisitedTriples(overlay)
           leaves  == leaf_chunk_range(overlay)
       IN  /\ \A k \in 1..Len(visited) : \A side \in 1..2 :
                 \A j \in 1..Len(visited) :
                    visited[j][1] = visited[k][2][side] => j < k
           /\ (\E c \in leaves[1]..(leaves[2] - 1) : chunk_modified[c + 1])
                => chunk_modified[overlay.chunk_index + 1]

\* C21: every successful replace_overlay(si, ci, new) stores new's schema at
\* schema index si, leaves every other schema entry and both cursors
\* unchanged, and returns the overlay previously at si resolved at ci; when
\* new has as many internal nodes as the old overlay, no byte and no dirty
\* flag changes.
C21_ReplaceOverlayFrame ==
    [][ (last'.op = "replace_overlay" /\ last'.err = "Ok")
        => LET si  == last'.args[1]
               ci  == last'.args[2]
               new == last'.args[3]
           IN  /\ si < Len(schemas)
               /\ Len(schemas') = Len(schemas)
               /\ \A k \in 1..Len(schemas) :
                     schemas'[k] = IF k = si + 1
                                   THEN Schema(new.depth, new.leaves, new.list)
                                   ELSE schemas[k]
               /\ chunk_index' = chunk_index
               /\ schema_index' = schema_index
               /\ last'.ret = [chunk_index |-> ci,
                               depth  |-> schemas[si + 1].depth,
                               leaves |-> schemas[si + 1].leaves,
                               list   |-> schemas[si + 1].list]
               /\ num_internal_nodes(new) = num_internal_nodes(last'.ret)
                     => /\ bytes' = bytes
                        /\ chunk_modified' = chunk_modified ]_vars

\* The nested list's overlay (schema index 1, chunk 4) of a composite cache
\* with advanced cursors and mixed flags has been replaced by an overlay of
\* as many internal nodes and another leaf count.
C21_Witness ==
    /\ LastOk("replace_overlay")
    /\ last.args[1] = 1 /\ last.args[2] = 4
    /\ Len(schemas) = 2
    /\ chunk_index = 4 /\ schema_index = 1
    /\ last.ret.leaves = 2 /\ last.args[3].leaves = 2
    /\ schemas[2] # last.schemas_before[2]
    /\ TRUE \in {chunk_modified[i] : i \in 1..Len(chunk_modified)}
    /\ FALSE \in {chunk_modified[i] : i \in 1..Len(chunk_modified)}

\* C24: a failing replace_overlay leaves the cache unchanged: whenever it
\* returns NoSchemaForIndex, UnableToObtainSlices, UnableToGrowMerkleTree or
\* UnableToShrinkMerkleTree, the bytes, dirty flags, schema list and cursors
\* are exactly as before the call.
C24_FailedReplaceOverlayUnchanged ==
    [][ (/\ last'.op = "replace_overlay"
         /\ last'.err \in {"NoSchemaForIndex", "UnableToObtainSlices",
                           "UnableToGrowMerkleTree", "UnableToShrinkMerkleTree"})
        => /\ bytes' = bytes
           /\ chunk_modified' = chunk_modified
           /\ schemas' = schemas
           /\ chunk_index' = chunk_index
           /\ schema_index' = schema_index ]_vars

\* replace_overlay has failed to obtain the slices of the old overlay of a
\* composite cache: the overlay of schema index 0 resolved past the end,
\* with a new overlay of another number of internal nodes.
C24_Witness ==
    /\ last.op = "replace_overlay"
    /\ last.err = "UnableToObtainSlices"
    /\ last.args[1] = 0 /\ last.args[2] = 9
    /\ num_internal_nodes(last.args[3]) # num_internal_nodes(into_overlay(schemas[1], 9))
    /\ Len(schemas) = 2
    /\ Len(chunk_modified) = 9

\* C22: reset_modifications sets every chunk_modified flag to false and both
\* chunk_index and schema_index to zero, and changes nothing else: bytes,
\* the number of chunks and the schema list are the same before and after.
C22_ResetModificationsFrame ==
    [][ (last'.op = "reset_modifications")
        => /\ \A i \in 1..Len(chunk_modified') : chunk_modified'[i] = FALSE
           /\ Len(chunk_modified') = Len(chunk_modified)
           /\ chunk_index' = 0
           /\ schema_index' = 0
           /\ bytes' = bytes
           /\ schemas' = schemas ]_vars

\* The flags of the composite cache that was saved in the middle of an
\* update (two flags set, cursors at chunk 4 and schema 1) have been reset.
C22_Witness ==
    /\ LastOk("reset_modifications")
    /\ last.flags_before = <<FALSE, TRUE, FALSE, FALSE, TRUE,
                             FALSE, FALSE, FALSE, FALSE>>
    /\ Len(last.schemas_before) = 2
    /\ Len(schemas) = 2
    /\ Len(bytes) = 9 * HASHSIZE
    /\ chunk_index = 0 /\ schema_index = 0

\* The chunk at node k of the item's tree in the buffer of a cache built
\* from `subtrees` with `internal` internal nodes: an internal node is read
\* from the buffer, a leaf is the root of its subtree (the first chunk of
\* the subtree's byte image), a leaf past the last subtree is zero.
ItemNode(subtrees, internal, k) ==
    IF k < internal THEN ChunkAt(bytes, k)
    ELSE IF k - internal < Len(subtrees)
    THEN ChunkAt(subtrees[k - internal + 1].bytes, 0)
    ELSE Zeros(HASHSIZE)

\* C23: from_subtrees over n built subtrees returns a cache whose chunk
\* buffer is the item's internal nodes (each the hash of its two children,
\* the leaves being the subtrees' roots), then each subtree's full byte
\* image in the given order, then next_power_of_two(n) - n zero chunks; whose
\* schema list is the item's own schema (only when the item is a List)
\* followed by the subtrees' schema lists in the same order; whose chunks
\* are all dirty and whose cursors are zero.  It fails with the subtree's
\* error when any subtree is an empty cache.
C23_FromSubtreesLayout ==
    (last.op = "from_subtrees")
    => LET is_list  == last.args[1]
           subtrees == last.args[2]
           depth    == last.args[3]
           n        == Len(subtrees)
           internal == IF n = 0 THEN 0 ELSE next_power_of_two(n) - 1
           images   == Flatten([i \in 1..n |-> subtrees[i].bytes])
           padding  == next_power_of_two(n) - n
           own      == IF is_list THEN <<Schema(depth, n, TRUE)>> ELSE <<>>
       IN  /\ (\E i \in 1..n : Len(subtrees[i].chunk_modified) = 0)
                 => last.err = "CacheNotInitialized"
           /\ last.err = "Ok"
                 => /\ Len(bytes) = internal * HASHSIZE + Len(images) + padding * HASHSIZE
                    /\ \A k \in 0..(internal - 1) :
                          ChunkAt(bytes, k) = hash(ItemNode(subtrees, internal, 2 * k + 1)
                                                   \o ItemNode(subtrees, internal, 2 * k + 2))
                    /\ Slice(bytes, internal * HASHSIZE,
                             internal * HASHSIZE + Len(images)) = images
                    /\ Slice(bytes, internal * HASHSIZE + Len(images), Len(bytes))
                          = Zeros(padding * HASHSIZE)
                    /\ schemas = own \o Flatten([i \in 1..n |-> subtrees[i].schemas])
                    /\ Len(chunk_modified) = Len(bytes) \div BYTES_PER_CHUNK
                    /\ \A i \in 1..Len(chunk_modified) : chunk_modified[i]
                    /\ chunk_index = 0
                    /\ schema_index = 0

\* A list item has been built from three subtrees, a nested list of three
\* chunks among them: three internal nodes, five chunks of subtree images,
\* one chunk of padding, and the item's schema before the nested list's.
C23_Witness ==
    /\ LastOk("from_subtrees")
    /\ last.args[1] = TRUE
    /\ Len(last.args[2]) = 3
    /\ \E i \in 1..3 : Len(last.args[2][i].bytes) = 3 * HASHSIZE
    /\ Len(bytes) = 9 * HASHSIZE
    /\ Len(schemas) = 2
    /\ schemas[1].leaves = 3

====
